---- MODULE Spec2Model ----
(***************************************************************************)
(* A model of espa_bulk_downloader: the feed generator (SceneFeed), the    *)
(* Scene value object, LocalStorage.store with its download / md5 check /  *)
(* retry loop, and the process() driver that runs them over a feed.        *)
(*                                                                         *)
(* Strings are sequences of tokens, so that ''.join, str.split and         *)
(* str.replace are computed and two paths are equal only when the code     *)
(* would build the same string.  The filesystem is a map from file paths   *)
(* to contents plus a set of directories; a content is a sequence of       *)
(* chunks, written one chunk at a time by shutil.copyfileobj.              *)
(***************************************************************************)
EXTENDS Integers, Sequences, FiniteSets, TLC

\* ------------------------------------------------------------------ bounds
\* how many times the client is started on the same target directory
MaxRuns == 2
\* longest feed
MaxFeed == 2
\* the transfers and checksum requests counted within one store call: the counts
\* stop there, the loop of store does not
MaxAttempts == 5

\* ------------------------------------------------------------------ program constants
MAX_RETRIES == 3

\* the operating-system processes that may run the client; Spec starts only process 1
Procs == {1, 2}

\* ------------------------------------------------------------------ strings
RECURSIVE pysplit(_, _)
\* str.split(sep) for a one-token separator
pysplit(s, sep) ==
    IF \E i \in 1..Len(s) : s[i] = sep
    THEN LET i == CHOOSE k \in 1..Len(s) : s[k] = sep /\ \A j \in 1..(k - 1) : s[j] # sep
         IN  <<SubSeq(s, 1, i - 1)>> \o pysplit(SubSeq(s, i + 1, Len(s)), sep)
    ELSE <<s>>

\* str.split('.tar.gz')[0]: what precedes the first occurrence of the two tokens ".", "tar.gz"
before_archive_suffix(s) ==
    IF \E i \in 1..(Len(s) - 1) : s[i] = "." /\ s[i + 1] = "tar.gz"
    THEN LET i == CHOOSE k \in 1..(Len(s) - 1) :
                      /\ s[k] = "." /\ s[k + 1] = "tar.gz"
                      /\ \A j \in 1..(k - 1) : ~(s[j] = "." /\ s[j + 1] = "tar.gz")
         IN  SubSeq(s, 1, i - 1)
    ELSE s

\* str.replace(old, new) for one-token old and new: every occurrence is replaced
pyreplace(s, old, new) == [i \in 1..Len(s) |-> IF s[i] = old THEN new ELSE s[i]]

\* ------------------------------------------------------------------ the feed
\* item_description of the feed publisher: scene_status:<status>,orderid:<id>,orderdate:<date>
item_description(status, orderid, orderdate) ==
    <<"scene_status", ":", status, ",", "orderid", ":", orderid, ",", "orderdate", ":", orderdate>>

Url(host, file) == <<"http:", "/", "/", host, "/", "L1", "/", file, ".", "tar.gz">>

\* the entries a feed is made of: the same file, ordered twice
Entries ==
    { [link |-> Url("host", "x"), description |-> item_description("complete", "A", "d1")],
      [link |-> Url("host", "x"), description |-> item_description("complete", "B", "d2")] }

Feeds == UNION { [1..n -> Entries] : n \in 0..MaxFeed }

\* a download URL with its directory and file name given: the file name is the
\* stem followed by '.tar.gz'
UrlIn(dir, stem) == <<"http:", "/", "/", "host", "/", dir, "/">> \o stem \o <<".", "tar.gz">>

\* more entries, whose URLs all end in '.tar.gz': another file name, the text
\* 'tar.gz' in the directory of the URL, and the archive suffix twice
WideEntries ==
    { [link |-> Url("host", "x"), description |-> item_description("complete", "A", "d1")],
      [link |-> Url("host", "LT81234"),
       description |-> item_description("complete", "order42", "d2")],
      [link |-> UrlIn("tar.gz", <<"x">>), description |-> item_description("complete", "B", "d3")],
      [link |-> UrlIn("L1", <<"x", ".", "tar.gz">>),
       description |-> item_description("complete", "A", "d4")] }

WideFeeds == UNION { [1..n -> WideEntries] : n \in 0..MaxFeed }

\* the -o argument
OrderArgs == {"ALL", "A", "B"}

\* ------------------------------------------------------------------ Scene
Scene(srcurl, orderid) ==
    LET parts    == pysplit(srcurl, "/")
        filename == parts[Len(parts)]
    IN  [ srcurl   |-> srcurl,
          md5url   |-> pyreplace(srcurl, "tar.gz", "md5"),
          orderid  |-> orderid,
          filename |-> filename,
          name     |-> before_archive_suffix(filename) ]

NoScene == [ srcurl |-> <<>>, md5url |-> <<>>, orderid |-> "", filename |-> <<>>, name |-> <<>> ]

\* entry.description.split(',')[1].split(':')[1]
scene_order(entry) == pysplit(pysplit(entry.description, ",")[2], ":")[2][1]

\* (variant for C9: the test without its "ALL" case)
get_items_wrong_test(orderid, so) == so = orderid
\* the test of get_items: is the entry in the requested order
get_items_test(orderid, so) == orderid = "ALL" \/ so = orderid

\* ------------------------------------------------------------------ contents, digests
\* what the artifact server may send: the two contents differ in one line ending
Contents == { <<"g", "LF">>, <<"g", "CRLF">> }

\* hashlib.md5(data).hexdigest(): distinct data, distinct digests
md5(data) == <<"md5">> \o data

\* the first line of the checksum resource, as its whitespace-separated tokens;
\* an empty resource has none
Md5Lines == { <<>> } \cup { <<md5(c), "x.tar.gz">> : c \in Contents }

\* file.read() of a file opened in mode 'r': on nt the C runtime's text mode
\* turns CR LF into LF, on posix the bytes are returned as they are
read_text(data, os_name) ==
    IF os_name = "nt"
    THEN [i \in 1..Len(data) |-> IF data[i] = "CRLF" THEN "LF" ELSE data[i]]
    ELSE data

VARIABLES
    os_name,        \* "posix" or "nt": the platform the client runs on
    files,          \* the file system under basedir: path -> content
    dirs,           \* the directories that exist
    runs,           \* how many times the client was started
    pc,             \* where each process is
    order,          \* process(): the order argument
    check_md5,      \* process(): the check_md5 argument
    feed,           \* get_items: feed.entries
    idx,            \* get_items: how many entries the generator has consumed
    processed,      \* process(): processed
    scene,          \* the Scene being stored
    dl_okay,        \* store: dl_okay
    n_retries,      \* store: n_retries
    req,            \* store: what is still to be read from the response of urlopen(srcurl)
    md5_req,        \* store: the response of urlopen(md5url)
    target_handle,  \* store: the open temporary file: the path that names it now and
                    \* the position of the next write; NoHandle when none is open
    error,          \* the exception that ended the run, "" if none
    warned,         \* "No scenes were processed!" was logged
    yielded,        \* history: the Scenes get_items has yielded in this run
    attempts,       \* history: the urlopen(srcurl) calls of this store call
    served,         \* history: the content the last urlopen(srcurl) serves
    md5log,         \* history: the outcome of each urlopen(md5url) of this store call
    md5_never_right,\* history: no checksum request of this store call has returned the
                    \* digest of the bytes transferred before it
    renamed,        \* history: the paths os.rename committed in this run
    stored0,        \* history: the file paths that existed when the run started
    killedAt,       \* history: where the process was when it was killed
    interrupted     \* history: the scene paths whose store was killed before its rename
                    \* and that no store has committed since

vars == << os_name, files, dirs, runs, pc, order, check_md5, feed, idx, processed,
           scene, dl_okay, n_retries, req, md5_req, target_handle, error, warned,
           yielded, attempts, served, md5log, md5_never_right, renamed, stored0,
           killedAt, interrupted >>

\* ------------------------------------------------------------------ LocalStorage paths
basedir == <<"basedir">>

os_sep == IF os_name = "nt" THEN "\\" ELSE "/"

directory_path(s) == basedir \o <<os_sep>> \o <<s.orderid>> \o <<os_sep>>

scene_path(s) == directory_path(s) \o s.filename

\* (variant for C11: the transfer is written to the committed path itself)
tmp_scene_path_in_place(s) == scene_path(s)
tmp_scene_path(s) == directory_path(s) \o s.filename \o <<".part">>

os_path_exists(path) == path \in DOMAIN files \/ path \in dirs

\* (variants for C3 and C5: the test looks at the '.part' path, at the directory)
is_stored_part(s) == os_path_exists(tmp_scene_path(s))
is_stored_dir(s) == os_path_exists(directory_path(s))
\* (variant for C19: store without its test of the committed path)
is_stored_never(s) == FALSE
is_stored(s) == os_path_exists(scene_path(s))

\* ------------------------------------------------------------------ file operations
\* open(path, 'wb') and writes through the handle
write_file(fs, path, data) ==
    [x \in DOMAIN fs \cup {path} |-> IF x = path THEN data ELSE fs[x]]

\* a write of one chunk at position pos of a file: the chunk replaces what is
\* there, and a gap before it reads as zero bytes
write_at(data, pos, chunk) ==
    [i \in 1..(IF Len(data) > pos THEN Len(data) ELSE pos + 1) |->
        IF i = pos + 1 THEN chunk ELSE IF i <= Len(data) THEN data[i] ELSE "NUL"]

os_remove(fs, path) == [x \in DOMAIN fs \ {path} |-> fs[x]]

\* no open file
NoHandle == <<>>

\* the name of a file that no path names any more
Unlinked == <<"(unlinked)">>

\* an open file stays the same file when it is renamed, and is named by no path
\* once it is removed or another file is renamed over it
handles_after_rename(hs, src, dst) ==
    [q \in DOMAIN hs |->
        IF hs[q] = NoHandle THEN NoHandle
        ELSE IF hs[q].path = src THEN [hs[q] EXCEPT !.path = dst]
        ELSE IF hs[q].path = dst THEN [hs[q] EXCEPT !.path = Unlinked]
        ELSE hs[q]]

handles_after_remove(hs, path) ==
    [q \in DOMAIN hs |->
        IF hs[q] # NoHandle /\ hs[q].path = path
        THEN [hs[q] EXCEPT !.path = Unlinked]
        ELSE hs[q]]

\* the log of checksum requests, which keeps MaxAttempts entries at most: past
\* that the newest entry takes the place of the last one
log_append(log, v) ==
    IF Len(log) < MaxAttempts THEN Append(log, v) ELSE [log EXCEPT ![Len(log)] = v]

\* (variant for C8: the rename that moves nothing)
os_rename_lost(fs, src, dst) == fs
os_rename(fs, src, dst) ==
    [x \in (DOMAIN fs \ {src}) \cup {dst} |-> IF x = dst THEN fs[src] ELSE fs[x]]

\* ------------------------------------------------------------------ the states of a process
StorePcs == { "store", "makedirs", "while", "urlopen", "open_tmp", "copyfileobj",
              "md5_urlopen", "md5_compare", "rename" }
RunningPcs == StorePcs \cup { "for", "processed" }
EndedPcs == { "finished", "aborted", "killed" }

Init ==
    /\ os_name \in {"posix", "nt"}
    /\ files = << >>
    /\ dirs = {}
    /\ runs = 0
    /\ pc = [p \in Procs |-> IF p = 1 THEN "idle" ELSE "off"]
    /\ order = [p \in Procs |-> "ALL"]
    /\ check_md5 = [p \in Procs |-> FALSE]
    /\ feed = [p \in Procs |-> <<>>]
    /\ idx = [p \in Procs |-> 0]
    /\ processed = [p \in Procs |-> FALSE]
    /\ scene = [p \in Procs |-> NoScene]
    /\ dl_okay = [p \in Procs |-> FALSE]
    /\ n_retries = [p \in Procs |-> 0]
    /\ req = [p \in Procs |-> <<>>]
    /\ md5_req = [p \in Procs |-> <<>>]
    /\ target_handle = [p \in Procs |-> NoHandle]
    /\ error = [p \in Procs |-> ""]
    /\ warned = [p \in Procs |-> FALSE]
    /\ yielded = [p \in Procs |-> <<>>]
    /\ attempts = [p \in Procs |-> 0]
    /\ served = [p \in Procs |-> <<>>]
    /\ md5log = [p \in Procs |-> <<>>]
    /\ md5_never_right = [p \in Procs |-> TRUE]
    /\ renamed = [p \in Procs |-> <<>>]
    /\ stored0 = [p \in Procs |-> {}]
    /\ killedAt = [p \in Procs |-> ""]
    /\ interrupted = {}

\* (variant for C15: the exception is caught in the loop of store, which goes round again)
raise_caught(p, kind) ==
    /\ pc' = [pc EXCEPT ![p] = "while"]
    /\ error' = [error EXCEPT ![p] = kind]

\* an exception leaves store and process(): nothing catches it
raise(p, kind) ==
    /\ pc' = [pc EXCEPT ![p] = "aborted"]
    /\ error' = [error EXCEPT ![p] = kind]

\* cli() calls process(target_directory, email, order, check_md5); get_items
\* parses the feed when the loop asks for the first item
process(p) ==
    /\ pc[p] = "idle"
    /\ runs < MaxRuns
    /\ runs' = runs + 1
    /\ \E o \in OrderArgs, c \in BOOLEAN, f \in Feeds :
          /\ order' = [order EXCEPT ![p] = o]
          /\ check_md5' = [check_md5 EXCEPT ![p] = c]
          /\ feed' = [feed EXCEPT ![p] = f]
    /\ pc' = [pc EXCEPT ![p] = "for"]
    /\ stored0' = [stored0 EXCEPT ![p] = DOMAIN files]
    /\ UNCHANGED << os_name, files, dirs, idx, processed, scene, dl_okay, n_retries,
                    req, md5_req, target_handle, error, warned, yielded, attempts, served, md5log,
                    md5_never_right, renamed, killedAt, interrupted >>

\* one turn of the loop of get_items: the next entry is yielded as a Scene, which
\* process() hands to store, or it is passed over
get_items(p) ==
    /\ pc[p] = "for"
    /\ idx[p] < Len(feed[p])
    /\ idx' = [idx EXCEPT ![p] = idx[p] + 1]
    /\ LET entry == feed[p][idx[p] + 1]
           so    == scene_order(entry)
       IN  IF get_items_test(order[p], so)
           THEN /\ scene' = [scene EXCEPT ![p] = Scene(entry.link, so)]
                /\ yielded' = [yielded EXCEPT ![p] = Append(yielded[p], Scene(entry.link, so))]
                /\ pc' = [pc EXCEPT ![p] = "store"]
           ELSE UNCHANGED << scene, yielded, pc >>
    /\ UNCHANGED << os_name, files, dirs, runs, order, check_md5, feed, processed,
                    dl_okay, n_retries, req, md5_req, target_handle, error, warned, attempts, served,
                    md5log, md5_never_right, renamed, stored0, killedAt, interrupted >>

\* store: if self.is_stored(scene): return
store_is_stored(p) ==
    /\ pc[p] = "store"
    /\ pc' = [pc EXCEPT ![p] = IF is_stored(scene[p]) THEN "processed" ELSE "makedirs"]
    /\ UNCHANGED << os_name, files, dirs, runs, order, check_md5, feed, idx, processed,
                    scene, dl_okay, n_retries, req, md5_req, target_handle, error, warned,
                    yielded, attempts, served, md5log, md5_never_right, renamed,
                    stored0, killedAt, interrupted >>

\* store: the target directory is made if it is missing; dl_okay = False; n_retries = 0
store_makedirs(p) ==
    /\ pc[p] = "makedirs"
    /\ dirs' = IF os_path_exists(directory_path(scene[p]))
               THEN dirs
               ELSE dirs \cup {directory_path(scene[p])}
    /\ dl_okay' = [dl_okay EXCEPT ![p] = FALSE]
    /\ n_retries' = [n_retries EXCEPT ![p] = 0]
    /\ pc' = [pc EXCEPT ![p] = "while"]
    /\ UNCHANGED << os_name, files, runs, order, check_md5, feed, idx, processed,
                    scene, req, md5_req, target_handle, error, warned,
                    yielded, attempts, served, md5log, md5_never_right, renamed,
                    stored0, killedAt, interrupted >>

\* store: while not dl_okay
store_while(p) ==
    /\ pc[p] = "while"
    /\ pc' = [pc EXCEPT ![p] = IF dl_okay[p] THEN "rename" ELSE "urlopen"]
    /\ UNCHANGED << os_name, files, dirs, runs, order, check_md5, feed, idx, processed,
                    scene, dl_okay, n_retries, req, md5_req, target_handle, error, warned,
                    yielded, attempts, served, md5log, md5_never_right, renamed,
                    stored0, killedAt, interrupted >>

\* store: req = urllib2.urlopen(scene.srcurl); the request fails, or a response
\* arrives. The count of the requests stops at MaxAttempts, which then reads
\* "MaxAttempts or more"
store_urlopen(p) ==
    /\ pc[p] = "urlopen"
    /\ attempts' = [attempts EXCEPT ![p] = IF attempts[p] < MaxAttempts
                                          THEN attempts[p] + 1
                                          ELSE attempts[p]]
    /\ \/ /\ raise(p, "URLError")
          /\ UNCHANGED << req, served >>
       \/ \E c \in Contents :
             /\ req' = [req EXCEPT ![p] = c]
             /\ served' = [served EXCEPT ![p] = c]
             /\ pc' = [pc EXCEPT ![p] = "open_tmp"]
             /\ UNCHANGED error
    /\ UNCHANGED << os_name, files, dirs, runs, order, check_md5, feed, idx, processed,
                    scene, dl_okay, n_retries, md5_req, target_handle, warned,
                    yielded, md5log, md5_never_right, renamed, stored0, killedAt,
                    interrupted >>

\* store: open(self.tmp_scene_path(scene), 'wb') makes the file, or empties it
store_open_tmp(p) ==
    /\ pc[p] = "open_tmp"
    /\ IF directory_path(scene[p]) \in dirs
       THEN /\ files' = write_file(files, tmp_scene_path(scene[p]), <<>>)
            /\ target_handle' = [target_handle EXCEPT
                                    ![p] = [path |-> tmp_scene_path(scene[p]), pos |-> 0]]
            /\ pc' = [pc EXCEPT ![p] = "copyfileobj"]
            /\ UNCHANGED error
       ELSE /\ raise(p, "IOError")
            /\ UNCHANGED << files, target_handle >>
    /\ UNCHANGED << os_name, dirs, runs, order, check_md5, feed, idx, processed,
                    scene, dl_okay, n_retries, req, md5_req, warned,
                    yielded, attempts, served, md5log, md5_never_right, renamed,
                    stored0, killedAt, interrupted >>

\* store: shutil.copyfileobj(req, target_handle), one chunk a step, written where
\* the open file stands; a read may fail; at the end of the data, and when an
\* exception leaves the with block, the file is closed
store_copyfileobj(p) ==
    /\ pc[p] = "copyfileobj"
    /\ LET h == target_handle[p]
       IN  IF req[p] = <<>>
           THEN /\ pc' = [pc EXCEPT ![p] = IF check_md5[p] THEN "md5_urlopen" ELSE "while"]
                /\ target_handle' = [target_handle EXCEPT ![p] = NoHandle]
                /\ UNCHANGED << files, req, error >>
           ELSE \/ /\ files' = IF h.path \in DOMAIN files
                               THEN write_file(files, h.path,
                                               write_at(files[h.path], h.pos, Head(req[p])))
                               ELSE files
                   /\ target_handle' = [target_handle EXCEPT ![p].pos = h.pos + 1]
                   /\ req' = [req EXCEPT ![p] = Tail(req[p])]
                   /\ UNCHANGED << pc, error >>
                \/ /\ raise(p, "socket.error")
                   /\ target_handle' = [target_handle EXCEPT ![p] = NoHandle]
                   /\ UNCHANGED << files, req >>
    /\ UNCHANGED << os_name, dirs, runs, order, check_md5, feed, idx, processed,
                    scene, dl_okay, n_retries, md5_req, warned,
                    yielded, attempts, served, md5log, md5_never_right, renamed,
                    stored0, killedAt, interrupted >>

\* (variant for C7: a missing checksum does not end the loop)
md5_unavailable_retry == FALSE
\* what the except urllib2.URLError branch assigns to dl_okay
md5_unavailable_okay == TRUE

\* store: md5_req = urllib2.urlopen(scene.md5url); URLError means no checksum
store_md5_urlopen(p) ==
    /\ pc[p] = "md5_urlopen"
    /\ \/ /\ dl_okay' = [dl_okay EXCEPT ![p] = md5_unavailable_okay]
          /\ md5log' = [md5log EXCEPT ![p] = log_append(md5log[p], "unavailable")]
          /\ md5_never_right' = [md5_never_right EXCEPT ![p] = FALSE]
          /\ pc' = [pc EXCEPT ![p] = "while"]
          /\ UNCHANGED md5_req
       \/ \E line \in Md5Lines :
             /\ md5_req' = [md5_req EXCEPT ![p] = line]
             /\ md5log' = [md5log EXCEPT ![p] = log_append(md5log[p], "fetched")]
             /\ pc' = [pc EXCEPT ![p] = "md5_compare"]
             /\ UNCHANGED << dl_okay, md5_never_right >>
    /\ UNCHANGED << os_name, files, dirs, runs, order, check_md5, feed, idx, processed,
                    scene, n_retries, req, target_handle, error, warned,
                    yielded, attempts, served, renamed, stored0, killedAt, interrupted >>

\* the last entry of the log of checksum requests becomes what was made of the response
verdict(log, v) == [log EXCEPT ![Len(log)] = v]

\* (variant for C17: the retries are taken for used up one mismatch early)
retries_exceeded_early(n) == n >= MAX_RETRIES - 1
\* (variant for C20: the retries are taken for used up one mismatch late)
retries_exceeded_late(n) == n > MAX_RETRIES
\* the test of the retry branch: are the retries used up
retries_exceeded(n) == n >= MAX_RETRIES

\* store: md5sum_truth = md5_req.readline().split()[0]; md5sum_test is the digest
\* of the temporary file read in mode 'r'; the two are compared
store_md5_compare(p) ==
    /\ pc[p] = "md5_compare"
    /\ LET tmp == tmp_scene_path(scene[p])
       IN  IF md5_req[p] = <<>>
           THEN /\ raise(p, "IndexError")
                /\ md5log' = [md5log EXCEPT ![p] = verdict(md5log[p], "empty")]
                /\ UNCHANGED << files, dl_okay, n_retries, md5_never_right, target_handle >>
           ELSE IF tmp \notin DOMAIN files
           THEN /\ raise(p, "IOError")
                /\ UNCHANGED << files, dl_okay, n_retries, md5log, md5_never_right,
                                target_handle >>
           ELSE LET md5sum_truth == md5_req[p][1]
                    md5sum_test  == md5(read_text(files[tmp], os_name))
                IN  /\ md5_never_right' =
                          [md5_never_right EXCEPT ![p] = @ /\ md5sum_truth # md5(files[tmp])]
                    /\ IF md5sum_truth # md5sum_test
                       THEN /\ md5log' = [md5log EXCEPT ![p] = verdict(md5log[p], "mismatch")]
                            /\ IF ~retries_exceeded(n_retries[p])
                               THEN /\ n_retries' = [n_retries EXCEPT ![p] = n_retries[p] + 1]
                                    /\ pc' = [pc EXCEPT ![p] = "while"]
                                    /\ UNCHANGED << files, target_handle, error >>
                               ELSE /\ files' = os_remove(files, tmp)
                                    /\ target_handle' = handles_after_remove(target_handle, tmp)
                                    /\ pc' = [pc EXCEPT ![p] = "while"]
                                    /\ UNCHANGED << n_retries, error >>
                            /\ UNCHANGED dl_okay
                       ELSE /\ md5log' = [md5log EXCEPT ![p] = verdict(md5log[p], "match")]
                            /\ dl_okay' = [dl_okay EXCEPT ![p] = TRUE]
                            /\ pc' = [pc EXCEPT ![p] = "while"]
                            /\ UNCHANGED << files, n_retries, error, target_handle >>
    /\ UNCHANGED << os_name, dirs, runs, order, check_md5, feed, idx, processed,
                    scene, req, md5_req, warned,
                    yielded, attempts, served, renamed, stored0, killedAt, interrupted >>

\* store: os.rename(self.tmp_scene_path(scene), self.scene_path(scene)); on nt
\* the call fails when the destination exists
store_rename(p) ==
    /\ pc[p] = "rename"
    /\ LET tmp == tmp_scene_path(scene[p])
           dst == scene_path(scene[p])
       IN  IF tmp \notin DOMAIN files \/ (os_name = "nt" /\ dst \in DOMAIN files)
           THEN /\ raise(p, "OSError")
                /\ UNCHANGED << files, renamed, interrupted, target_handle >>
           ELSE /\ files' = os_rename(files, tmp, dst)
                /\ target_handle' = handles_after_rename(target_handle, tmp, dst)
                /\ renamed' = [renamed EXCEPT ![p] = Append(renamed[p], dst)]
                /\ interrupted' = interrupted \ {dst}
                /\ pc' = [pc EXCEPT ![p] = "processed"]
                /\ UNCHANGED error
    /\ UNCHANGED << os_name, dirs, runs, order, check_md5, feed, idx, processed,
                    scene, dl_okay, n_retries, req, md5_req, warned,
                    yielded, attempts, served, md5log, md5_never_right, stored0,
                    killedAt >>

\* process(): store has returned, its locals are gone; processed = True
process_processed(p) ==
    /\ pc[p] = "processed"
    /\ processed' = [processed EXCEPT ![p] = TRUE]
    /\ pc' = [pc EXCEPT ![p] = "for"]
    /\ dl_okay' = [dl_okay EXCEPT ![p] = FALSE]
    /\ n_retries' = [n_retries EXCEPT ![p] = 0]
    /\ req' = [req EXCEPT ![p] = <<>>]
    /\ md5_req' = [md5_req EXCEPT ![p] = <<>>]
    /\ attempts' = [attempts EXCEPT ![p] = 0]
    /\ served' = [served EXCEPT ![p] = <<>>]
    /\ md5log' = [md5log EXCEPT ![p] = <<>>]
    /\ md5_never_right' = [md5_never_right EXCEPT ![p] = TRUE]
    /\ UNCHANGED << os_name, files, dirs, runs, order, check_md5, feed, idx,
                    scene, target_handle, error, warned, yielded, renamed, stored0,
                    killedAt, interrupted >>

\* (variant for C10: the warning test inverted)
warns_when_processed(b) == b = TRUE
\* the test that guards the warning of process()
warns(b) == b = FALSE

\* process(): the generator is exhausted; the warning, then "Finished"
process_finish(p) ==
    /\ pc[p] = "for"
    /\ idx[p] = Len(feed[p])
    /\ warned' = [warned EXCEPT ![p] = warns(processed[p])]
    /\ pc' = [pc EXCEPT ![p] = "finished"]
    /\ UNCHANGED << os_name, files, dirs, runs, order, check_md5, feed, idx, processed,
                    scene, dl_okay, n_retries, req, md5_req, target_handle, error,
                    yielded, attempts, served, md5log, md5_never_right, renamed,
                    stored0, killedAt, interrupted >>

\* the user cancels the client (EPILOG: "It is safe to cancel and restart the
\* client"): the process is killed where it stands and its memory is gone; the
\* history keeps where it was and which scene it was storing
cancel(p) ==
    /\ pc[p] \in RunningPcs
    /\ pc' = [pc EXCEPT ![p] = "killed"]
    /\ killedAt' = [killedAt EXCEPT ![p] = pc[p]]
    /\ interrupted' = IF pc[p] \in StorePcs \ {"store"}
                      THEN interrupted \cup {scene_path(scene[p])}
                      ELSE interrupted
    /\ order' = [order EXCEPT ![p] = "ALL"]
    /\ check_md5' = [check_md5 EXCEPT ![p] = FALSE]
    /\ feed' = [feed EXCEPT ![p] = <<>>]
    /\ idx' = [idx EXCEPT ![p] = 0]
    /\ processed' = [processed EXCEPT ![p] = FALSE]
    /\ dl_okay' = [dl_okay EXCEPT ![p] = FALSE]
    /\ n_retries' = [n_retries EXCEPT ![p] = 0]
    /\ req' = [req EXCEPT ![p] = <<>>]
    /\ md5_req' = [md5_req EXCEPT ![p] = <<>>]
    /\ target_handle' = [target_handle EXCEPT ![p] = NoHandle]
    /\ yielded' = [yielded EXCEPT ![p] = <<>>]
    /\ attempts' = [attempts EXCEPT ![p] = 0]
    /\ served' = [served EXCEPT ![p] = <<>>]
    /\ md5log' = [md5log EXCEPT ![p] = <<>>]
    /\ md5_never_right' = [md5_never_right EXCEPT ![p] = TRUE]
    /\ UNCHANGED << os_name, files, dirs, runs, scene, error, warned, renamed, stored0 >>

\* the operating-system process is gone, and with it everything but the file
\* system; the client can be started again on the same target directory
exit(p) ==
    /\ pc[p] \in EndedPcs
    /\ pc' = [pc EXCEPT ![p] = "idle"]
    /\ order' = [order EXCEPT ![p] = "ALL"]
    /\ check_md5' = [check_md5 EXCEPT ![p] = FALSE]
    /\ feed' = [feed EXCEPT ![p] = <<>>]
    /\ idx' = [idx EXCEPT ![p] = 0]
    /\ processed' = [processed EXCEPT ![p] = FALSE]
    /\ scene' = [scene EXCEPT ![p] = NoScene]
    /\ dl_okay' = [dl_okay EXCEPT ![p] = FALSE]
    /\ n_retries' = [n_retries EXCEPT ![p] = 0]
    /\ req' = [req EXCEPT ![p] = <<>>]
    /\ md5_req' = [md5_req EXCEPT ![p] = <<>>]
    /\ error' = [error EXCEPT ![p] = ""]
    /\ UNCHANGED target_handle
    /\ warned' = [warned EXCEPT ![p] = FALSE]
    /\ yielded' = [yielded EXCEPT ![p] = <<>>]
    /\ attempts' = [attempts EXCEPT ![p] = 0]
    /\ served' = [served EXCEPT ![p] = <<>>]
    /\ md5log' = [md5log EXCEPT ![p] = <<>>]
    /\ md5_never_right' = [md5_never_right EXCEPT ![p] = TRUE]
    /\ renamed' = [renamed EXCEPT ![p] = <<>>]
    /\ stored0' = [stored0 EXCEPT ![p] = {}]
    /\ killedAt' = [killedAt EXCEPT ![p] = ""]
    /\ UNCHANGED << os_name, files, dirs, runs, interrupted >>

Next ==
    \E p \in Procs :
        \/ process(p)
        \/ get_items(p)
        \/ store_is_stored(p)
        \/ store_makedirs(p)
        \/ store_while(p)
        \/ store_urlopen(p)
        \/ store_open_tmp(p)
        \/ store_copyfileobj(p)
        \/ store_md5_urlopen(p)
        \/ store_md5_compare(p)
        \/ store_rename(p)
        \/ process_processed(p)
        \/ process_finish(p)
        \/ cancel(p)
        \/ exit(p)

Spec == Init /\ [][Next]_vars

\* ------------------------------------------------------------------ two clients at once
\* the shell has started two clients together on one target directory of a
\* posix system: both have entered process() with check_md5 on, and the feed of
\* both lists the same one scene
InitStartedTogether ==
    /\ os_name = "posix"
    /\ files = << >>
    /\ dirs = {}
    /\ runs = MaxRuns
    /\ pc = [p \in Procs |-> "for"]
    /\ order = [p \in Procs |-> "ALL"]
    /\ check_md5 = [p \in Procs |-> TRUE]
    /\ feed = [p \in Procs |->
                  <<[link |-> Url("host", "x"),
                     description |-> item_description("complete", "A", "d1")]>>]
    /\ idx = [p \in Procs |-> 0]
    /\ processed = [p \in Procs |-> FALSE]
    /\ scene = [p \in Procs |-> NoScene]
    /\ dl_okay = [p \in Procs |-> FALSE]
    /\ n_retries = [p \in Procs |-> 0]
    /\ req = [p \in Procs |-> <<>>]
    /\ md5_req = [p \in Procs |-> <<>>]
    /\ target_handle = [p \in Procs |-> NoHandle]
    /\ error = [p \in Procs |-> ""]
    /\ warned = [p \in Procs |-> FALSE]
    /\ yielded = [p \in Procs |-> <<>>]
    /\ attempts = [p \in Procs |-> 0]
    /\ served = [p \in Procs |-> <<>>]
    /\ md5log = [p \in Procs |-> <<>>]
    /\ md5_never_right = [p \in Procs |-> TRUE]
    /\ renamed = [p \in Procs |-> <<>>]
    /\ stored0 = [p \in Procs |-> {}]
    /\ killedAt = [p \in Procs |-> ""]
    /\ interrupted = {}

\* ------------------------------------------------------------------ more feeds
\* the client has been started once, on a feed of WideFeeds, and has entered process()
InitWideFeed ==
    /\ os_name \in {"posix", "nt"}
    /\ files = << >>
    /\ dirs = {}
    /\ runs = MaxRuns
    /\ pc = [p \in Procs |-> IF p = 1 THEN "for" ELSE "off"]
    /\ order = [p \in Procs |-> "ALL"]
    /\ check_md5 \in { [p \in Procs |-> p = 1 /\ c] : c \in BOOLEAN }
    /\ feed \in { [p \in Procs |-> IF p = 1 THEN f ELSE <<>>] : f \in WideFeeds }
    /\ idx = [p \in Procs |-> 0]
    /\ processed = [p \in Procs |-> FALSE]
    /\ scene = [p \in Procs |-> NoScene]
    /\ dl_okay = [p \in Procs |-> FALSE]
    /\ n_retries = [p \in Procs |-> 0]
    /\ req = [p \in Procs |-> <<>>]
    /\ md5_req = [p \in Procs |-> <<>>]
    /\ target_handle = [p \in Procs |-> NoHandle]
    /\ error = [p \in Procs |-> ""]
    /\ warned = [p \in Procs |-> FALSE]
    /\ yielded = [p \in Procs |-> <<>>]
    /\ attempts = [p \in Procs |-> 0]
    /\ served = [p \in Procs |-> <<>>]
    /\ md5log = [p \in Procs |-> <<>>]
    /\ md5_never_right = [p \in Procs |-> TRUE]
    /\ renamed = [p \in Procs |-> <<>>]
    /\ stored0 = [p \in Procs |-> {}]
    /\ killedAt = [p \in Procs |-> ""]
    /\ interrupted = {}

\* the runs of Spec, and single runs on the feeds of WideFeeds
InitWide == Init \/ InitWideFeed

SpecWide == InitWide /\ [][Next]_vars

\* one client run after run, or two clients at once
InitConcurrent == Init \/ InitStartedTogether

SpecConcurrent == InitConcurrent /\ [][Next]_vars

\* ------------------------------------------------------------------ what the claims speak of
\* the committed path of a scene holds a file
Committed(s) == scene_path(s) \in DOMAIN files

\* the temporary file of a scene exists
PartLeft(s) == tmp_scene_path(s) \in DOMAIN files

\* the order id an entry's description gives in its orderid field
OrderIdOf(entry) ==
    LET d == entry.description
        i == CHOOSE k \in 1..Len(d) : d[k] = "orderid"
    IN  d[i + 2]

\* the positions of the first n entries of feed f that belong to order filter o
Selected(f, n, o) == { i \in 1..n : o = "ALL" \/ OrderIdOf(f[i]) = o }

\* the exceptions of the artifact transfer
TransferErrors == { "URLError", "socket.error" }

\* how often a path occurs in a sequence of paths
Times(seq, path) == Cardinality({ i \in 1..Len(seq) : seq[i] = path })

\* ------------------------------------------------------------------ C1
\* C1: with a checksum endpoint that never returns the digest of the transferred
\* bytes, one call store(s, verify) transfers the artifact at most 1 + MAX_RETRIES
\* times, and once the 1 + MAX_RETRIES checksum mismatches are seen the call has
\* failed, no '.part' file is left and the scene is not stored.
C1_ChecksumRetryBound ==
    \A p \in Procs :
        (check_md5[p] /\ md5_never_right[p] /\ pc[p] \in StorePcs \cup {"processed", "aborted"}) =>
            /\ attempts[p] <= 1 + MAX_RETRIES
            /\ (Len(md5log[p]) = 1 + MAX_RETRIES /\ md5log[p][1 + MAX_RETRIES] = "mismatch") =>
                   /\ pc[p] = "aborted"
                   /\ ~PartLeft(scene[p])
                   /\ ~is_stored(scene[p])

\* ------------------------------------------------------------------ C2
\* C2: a run that is over, by reaching its end or by a transfer error of one of
\* its scenes, has finished and has called store for every scene of the feed that
\* belongs to the order filter.
C2_FailureDoesNotAbort ==
    \A p \in Procs :
        (pc[p] \in {"finished", "aborted"} /\ error[p] \in {""} \cup TransferErrors) =>
            /\ pc[p] = "finished"
            /\ Len(yielded[p]) = Cardinality(Selected(feed[p], Len(feed[p]), order[p]))

\* ------------------------------------------------------------------ C3
\* C3: a call of store on a scene whose committed path exists returns at once: it
\* makes no artifact request and no checksum request and leaves files and
\* directories as they are, with and without verification.
C3_StoreIdempotent ==
    [][ \A p \in Procs :
            (pc[p] = "store" /\ Committed(scene[p]) /\ pc'[p] # pc[p]) =>
                /\ pc'[p] \in {"processed", "killed"}
                /\ files' = files
                /\ dirs' = dirs
                /\ attempts[p] = 0 /\ attempts'[p] = 0
                /\ md5log[p] = <<>> /\ md5log'[p] = <<>> ]_vars

\* a second run meets a scene that an earlier run has committed, verification on
C3_Witness ==
    \E p \in Procs :
        /\ pc[p] = "processed"
        /\ check_md5[p]
        /\ scene_path(scene[p]) \in stored0[p]
        /\ attempts[p] = 0

\* ------------------------------------------------------------------ C4
\* C4: a store killed before its rename leaves the scene not stored and no new
\* file but the '.part' one; the next store of that scene writes the '.part' file
\* from its first byte, and when no request fails and no checksum mismatches it
\* commits after that one transfer.
C4_AtomicCommit ==
    \A p \in Procs :
        /\ (pc[p] = "killed" /\ killedAt[p] \in StorePcs \ {"store"}) =>
               /\ ~is_stored(scene[p])
               /\ \A path \in DOMAIN files \ stored0[p] :
                      path = tmp_scene_path(scene[p]) \/ Times(renamed[p], path) > 0
        /\ (scene_path(scene[p]) \in interrupted /\ pc[p] = "copyfileobj") =>
               files[tmp_scene_path(scene[p])] \o req[p] = served[p]
        /\ ( /\ scene_path(scene[p]) \in interrupted
             /\ pc[p] \in StorePcs \ {"store", "makedirs"}
             /\ \A i \in 1..Len(md5log[p]) : md5log[p][i] \in {"unavailable", "fetched", "match"} ) =>
               /\ attempts[p] <= 1
               /\ (pc[p] = "while" /\ attempts[p] = 1) => dl_okay[p]

\* C4, with verification: the statement holds of the runs that verify checksums
C4_WithVerification == (\A p \in Procs : check_md5[p]) => C4_AtomicCommit

\* ------------------------------------------------------------------ C5
\* C5: over the runs on one target directory no artifact request is made for a
\* scene whose committed path exists; in a run no path is committed twice and no
\* path present at its start is committed; when a run has finished, every scene
\* the feed yielded is stored, and those missing at the start were committed by
\* this run.
C5_DownloadOnce ==
    /\ [] \A p \in Procs :
           /\ \A i, j \in 1..Len(renamed[p]) : renamed[p][i] = renamed[p][j] => i = j
           /\ \A i \in 1..Len(renamed[p]) : renamed[p][i] \notin stored0[p]
           /\ pc[p] = "finished" =>
                  \A i \in 1..Len(yielded[p]) :
                      /\ Committed(yielded[p][i])
                      /\ scene_path(yielded[p][i]) \notin stored0[p] =>
                             Times(renamed[p], scene_path(yielded[p][i])) = 1
    /\ [][ \A p \in Procs : attempts'[p] > attempts[p] => ~Committed(scene[p]) ]_vars

\* a finished second run whose feed lists one scene twice: the scene was missing
\* at the start and is committed
C5_Witness ==
    \E p \in Procs :
        /\ pc[p] = "finished"
        /\ runs = 2
        /\ Len(yielded[p]) = 2
        /\ yielded[p][1] = yielded[p][2]
        /\ Len(renamed[p]) = 1

\* ------------------------------------------------------------------ C6
\* C6: with verification, when the first checksum fetched is the digest of the
\* bytes of the first transfer, store goes on to commit without another transfer,
\* and on its return the committed file holds what the source served and no
\* '.part' file is left.
C6_ChecksumSuccess ==
    \A p \in Procs :
        ( /\ check_md5[p]
          /\ attempts[p] = 1
          /\ Len(md5log[p]) = 1 /\ md5log[p][1] \in {"match", "mismatch"}
          /\ md5_req[p][1] = md5(served[p]) ) =>
            /\ pc[p] = "while" => dl_okay[p]
            /\ pc[p] \notin {"urlopen"}
            /\ pc[p] = "processed" =>
                   /\ Committed(scene[p])
                   /\ files[scene_path(scene[p])] = served[p]
                   /\ ~PartLeft(scene[p])

\* C6, on posix: the statement holds where mode 'r' returns the bytes as written
C6_OnPosix == os_name = "posix" => C6_ChecksumSuccess

\* ------------------------------------------------------------------ C7
\* C7: with verification, when the checksum request of the first transfer fails,
\* store makes no other transfer and no other checksum request, raises nothing,
\* and on its return the scene is stored.
C7_MissingChecksum ==
    \A p \in Procs :
        (Len(md5log[p]) >= 1 /\ md5log[p][1] = "unavailable") =>
            /\ attempts[p] = 1
            /\ Len(md5log[p]) = 1
            /\ pc[p] # "aborted"
            /\ error[p] = ""
            /\ pc[p] = "processed" => (is_stored(scene[p]) /\ ~PartLeft(scene[p]))

\* store has returned after a checksum request that failed
C7_Witness ==
    \E p \in Procs :
        /\ pc[p] = "processed"
        /\ check_md5[p]
        /\ md5log[p] = <<"unavailable">>
        /\ Committed(scene[p])

\* ------------------------------------------------------------------ C8
\* C8: whenever store has returned, the scene is stored.
C8_StorePostcondition ==
    \A p \in Procs : pc[p] = "processed" => is_stored(scene[p])

\* store has returned after a download that followed a checksum mismatch
C8_Witness ==
    \E p \in Procs :
        /\ pc[p] = "processed"
        /\ attempts[p] = 2
        /\ Len(renamed[p]) > 0
        /\ renamed[p][Len(renamed[p])] = scene_path(scene[p])

\* ------------------------------------------------------------------ C9
\* C9: what get_items has yielded after consuming n entries is, in feed order, one
\* Scene for each of these entries whose orderid field is the order filter, or for
\* each of them when the filter is "ALL"; each Scene has the link and the order id
\* of its entry.
C9_FeedFiltering ==
    \A p \in Procs :
        LET sel == Selected(feed[p], idx[p], order[p])
        IN  /\ Len(yielded[p]) = Cardinality(sel)
            /\ \A i \in sel :
                   LET k == Cardinality({ j \in sel : j <= i })
                   IN  /\ yielded[p][k].srcurl = feed[p][i].link
                       /\ yielded[p][k].orderid = OrderIdOf(feed[p][i])

\* order filter A on a feed of an entry of order B followed by one of order A
C9_Witness ==
    \E p \in Procs :
        /\ order[p] = "A"
        /\ idx[p] = 2
        /\ OrderIdOf(feed[p][1]) = "B"
        /\ Len(yielded[p]) = 1
        /\ yielded[p][1].orderid = "A"

\* ------------------------------------------------------------------ C10
\* C10: the warning "No scenes were processed!" is logged only by a run that has
\* finished without error and whose feed yielded no scene, and every finished run
\* whose feed yielded no scene logs it; while no scene has been yielded the run
\* changes no file and no directory.
C10_NothingProcessed ==
    /\ [] \A p \in Procs :
           /\ warned[p] => (pc[p] = "finished" /\ error[p] = "" /\ yielded[p] = <<>>)
           /\ (pc[p] = "finished" /\ yielded[p] = <<>>) => warned[p]
    /\ [][ \A p \in Procs :
               (pc[p] \in RunningPcs /\ yielded'[p] = <<>>) =>
                   (files' = files /\ dirs' = dirs) ]_vars

\* a finished run whose feed has entries, none of them in the order asked for
C10_Witness ==
    \E p \in Procs :
        /\ pc[p] = "finished"
        /\ warned[p]
        /\ Len(feed[p]) > 0
        /\ order[p] # "ALL"

\* ------------------------------------------------------------------ C11
\* a path that does not end in '.part'
IsCommittedPath(path) == path[Len(path)] # ".part"

\* a committed path holds something else than one whole artifact
IncompleteCommit ==
    \E path \in DOMAIN files : IsCommittedPath(path) /\ files[path] \notin Contents

\* a store has failed at its rename although each of its requests was answered
RenameFailed(p) ==
    /\ pc[p] = "aborted"
    /\ error[p] = "OSError"
    /\ \A i \in 1..Len(md5log[p]) : md5log[p][i] \in {"match", "mismatch"}

\* C11: a committed path that holds less than a whole transfer, and a store that
\* fails at its rename though all its requests were answered, are met only where
\* two clients run at once on the target directory, never where one client runs
\* alone, run after run.
C11_ConcurrentRunsUnsafe ==
    (IncompleteCommit \/ \E p \in Procs : RenameFailed(p)) => pc[2] # "off"

\* two clients at once: one has committed the '.part' file that the other had
\* just emptied, and the other then fails at its rename with its checksum matched
C11_Witness ==
    /\ IncompleteCommit
    /\ \E p, q \in Procs :
           /\ p # q
           /\ Len(renamed[p]) = 1
           /\ pc[q] \in StorePcs
           /\ error[p] = "" /\ error[q] = ""

\* two clients at once: a store fails at its rename with every request answered
\* and its checksum matched
C11_RenameFails == ~ \E p \in Procs : RenameFailed(p) /\ md5log[p] = <<"match">>

\* ------------------------------------------------------------------ C12
\* what follows the last "/" of a URL
LastSegment(url) ==
    LET k == CHOOSE i \in 1..Len(url) : url[i] = "/" /\ \A j \in (i + 1)..Len(url) : url[j] # "/"
    IN  SubSeq(url, k + 1, Len(url))

\* the URL ends in '.tar.gz'
EndsInArchiveSuffix(url) ==
    Len(url) >= 2 /\ url[Len(url) - 1] = "." /\ url[Len(url)] = "tar.gz"

\* the Scene the claim describes for an entry: only the trailing suffix is
\* stripped from the file name and replaced in the checksum URL
SceneOfClaim(entry) ==
    LET url      == entry.link
        filename == LastSegment(url)
    IN  [ srcurl   |-> url,
          md5url   |-> SubSeq(url, 1, Len(url) - 1) \o <<"md5">>,
          orderid  |-> OrderIdOf(entry),
          filename |-> filename,
          name     |-> SubSeq(filename, 1, Len(filename) - 2) ]

\* C12: the Scene made for a feed entry whose URL ends in '.tar.gz' has the last
\* path segment of the URL as its file name, the file name without its trailing
\* '.tar.gz' as its name, the URL with that trailing 'tar.gz' alone replaced by
\* 'md5' as its checksum URL, and the value of the second field of the
\* description as its order id.
C12_SceneDerivation ==
    \A p \in Procs :
        (pc[p] = "store" /\ EndsInArchiveSuffix(feed[p][idx[p]].link)) =>
            scene[p] = SceneOfClaim(feed[p][idx[p]])

\* the text 'tar.gz' occurs once in the URL
OneArchiveSuffix(url) == Cardinality({ i \in 1..Len(url) : url[i] = "tar.gz" }) = 1

\* C12, for the URLs in which 'tar.gz' occurs only as the suffix
C12_OneSuffix ==
    \A p \in Procs :
        (pc[p] = "store" /\ OneArchiveSuffix(feed[p][idx[p]].link)) =>
            scene[p] = SceneOfClaim(feed[p][idx[p]])

\* ------------------------------------------------------------------ C13
\* a step of the program of process p: the client runs on and each of its
\* requests is answered; starting and cancelling the client is left to the user
ProgramStep(p) ==
    \/ get_items(p)
    \/ store_is_stored(p)
    \/ store_makedirs(p)
    \/ store_while(p)
    \/ store_urlopen(p)
    \/ store_open_tmp(p)
    \/ store_copyfileobj(p)
    \/ store_md5_urlopen(p)
    \/ store_md5_compare(p)
    \/ store_rename(p)
    \/ process_processed(p)
    \/ process_finish(p)

\* one run of the client that nobody cancels
NextRun == \E p \in Procs : ProgramStep(p)

\* the runs in which the client always takes its next step
SpecFair == InitWideFeed /\ [][NextRun]_vars /\ WF_vars(NextRun)

\* C13: when the client keeps running and every request is answered, every call
\* of store that verifies checksums comes to an end, whatever the checksum
\* requests return, a mismatch every time included.
C13_StoreTerminates ==
    \A p \in Procs : (pc[p] \in StorePcs /\ check_md5[p]) ~> (pc[p] \notin StorePcs)

\* ------------------------------------------------------------------ C14
\* the call has seen a checksum mismatch with its retries used up: the mismatch
\* after MAX_RETRIES counted ones
Exhausted(p) ==
    Cardinality({ i \in 1..Len(md5log[p]) : md5log[p][i] = "mismatch" }) > MAX_RETRIES

\* C14: once a call of store has seen a mismatch with its retries used up, the
\* '.part' file is gone for the rest of the call, the call makes no further
\* transfer and the scene is not committed.
C14_ChecksumExhaustion ==
    \A p \in Procs :
        (pc[p] \in StorePcs \cup {"processed", "aborted"} /\ Exhausted(p)) =>
            /\ ~PartLeft(scene[p])
            /\ ~is_stored(scene[p])
            /\ pc[p] \notin {"open_tmp", "copyfileobj", "md5_urlopen", "md5_compare", "rename"}

\* C14, the commit alone: a call that has used up its retries does not return
\* with the scene committed
C14_NoLaterCommit ==
    \A p \in Procs : (pc[p] = "processed" /\ Exhausted(p)) => ~is_stored(scene[p])

\* ------------------------------------------------------------------ C15
\* C15: when a request for the artifact or the reading of its response has
\* failed, the call of store has ended with that error and the scene is not
\* stored; the failing step and every step after it change no file, commit
\* nothing and make no further artifact or checksum request.
C15_TransferFailureNotRetried ==
    /\ [] \A p \in Procs :
           error[p] \in TransferErrors =>
               /\ pc[p] = "aborted"
               /\ ~is_stored(scene[p])
               /\ Times(renamed[p], scene_path(scene[p])) = 0
    /\ [][ \A p \in Procs :
               error'[p] \in TransferErrors =>
                   /\ files' = files
                   /\ dirs' = dirs
                   /\ renamed'[p] = renamed[p]
                   /\ md5log'[p] = md5log[p]
                   /\ error[p] \in TransferErrors => attempts'[p] = attempts[p] ]_vars

\* the transfer that fails is one made after a checksum mismatch
C15_Witness ==
    \E p \in Procs :
        /\ pc[p] = "aborted"
        /\ error[p] = "socket.error"
        /\ n_retries[p] = 1
        /\ attempts[p] = 2
        /\ PartLeft(scene[p])

\* ------------------------------------------------------------------ C16
\* C16: a call of store that does not verify checksums makes one transfer and no
\* checksum request, and when the transfer is complete it goes on to the rename.
C16_NoVerification ==
    \A p \in Procs :
        (pc[p] \in StorePcs /\ ~check_md5[p]) =>
            /\ attempts[p] <= 1
            /\ md5log[p] = <<>>
            /\ (pc[p] = "while" /\ attempts[p] = 1) => dl_okay[p]

\* ------------------------------------------------------------------ C17
\* C17: the step that finds a checksum mismatch while n_retries < MAX_RETRIES
\* leaves the '.part' file and every other file as they are, commits nothing,
\* adds one to the retry counter and returns to the loop with dl_okay false; the
\* transfer that follows empties the '.part' file first, and whenever a checksum
\* is requested or compared the '.part' file holds the latest transfer alone.
C17_RetryOnMismatch ==
    /\ [] \A p \in Procs :
           /\ pc[p] = "copyfileobj" => files[tmp_scene_path(scene[p])] \o req[p] = served[p]
           /\ pc[p] \in {"md5_urlopen", "md5_compare"} =>
                  files[tmp_scene_path(scene[p])] = served[p]
    /\ [][ \A p \in Procs :
               /\ ( /\ pc[p] = "md5_compare"
                    /\ n_retries[p] < MAX_RETRIES
                    /\ md5log'[p] # <<>>
                    /\ md5log'[p][Len(md5log'[p])] = "mismatch" ) =>
                      /\ files' = files
                      /\ PartLeft(scene[p])
                      /\ renamed'[p] = renamed[p]
                      /\ n_retries'[p] = n_retries[p] + 1
                      /\ ~dl_okay'[p]
                      /\ pc'[p] = "while"
               /\ (pc[p] = "while" /\ ~dl_okay[p] /\ pc'[p] \in StorePcs) =>
                      pc'[p] \in {"while", "urlopen"}
               /\ (pc[p] = "open_tmp" /\ pc'[p] = "copyfileobj") =>
                      files'[tmp_scene_path(scene[p])] = <<>> ]_vars

\* after one mismatch the second transfer is complete: the '.part' file holds it
\* and nothing of the first
C17_Witness ==
    \E p \in Procs :
        /\ pc[p] = "md5_urlopen"
        /\ n_retries[p] = 1
        /\ md5log[p] = <<"mismatch">>
        /\ served[p] = <<"g", "CRLF">>
        /\ files[tmp_scene_path(scene[p])] = <<"g", "CRLF">>

\* ------------------------------------------------------------------ C18
\* the latest checksum request of the call failed, or the digest it fetched is
\* that of the given content
VerifiedOrUnavailable(p, data) ==
    /\ md5log[p] # <<>>
    /\ \/ md5log[p][Len(md5log[p])] = "unavailable"
       \/ md5_req[p] # <<>> /\ md5_req[p][1] = md5(data)

\* C18: a call of store that verifies checksums reaches its rename, and returns
\* from it, only with a file whose latest checksum request failed or fetched the
\* digest of the bytes of that file.
C18_NoUnverifiedCommit ==
    \A p \in Procs :
        /\ (check_md5[p] /\ pc[p] = "rename") =>
               VerifiedOrUnavailable(p, files[tmp_scene_path(scene[p])])
        /\ (check_md5[p] /\ pc[p] = "processed" /\ attempts[p] > 0) =>
               VerifiedOrUnavailable(p, files[scene_path(scene[p])])

\* C18, on posix, where the file is read as it was written
C18_OnPosix == os_name = "posix" => C18_NoUnverifiedCommit

\* ------------------------------------------------------------------ C19
\* C19: with one client, run after run, every file that a step removes or changes
\* is a '.part' file, so a committed file stays and keeps its content, and every
\* rename creates a committed path that was not there.
C19_CommittedFilesStable ==
    [][ /\ \A path \in DOMAIN files :
               (path \notin DOMAIN files' \/ files'[path] # files[path]) =>
                   ~IsCommittedPath(path)
        /\ \A p \in Procs :
               renamed'[p] # renamed[p] /\ renamed'[p] # <<>> =>
                   renamed'[p][Len(renamed'[p])] \notin DOMAIN files
        /\ \A p \in Procs :
               (scene[p] # NoScene /\ scene'[p] = scene[p] /\ is_stored(scene[p])) =>
                   is_stored(scene[p])' ]_vars

\* a store works on a scene of another file name while a scene is committed,
\* and has emptied its own '.part' file
C19_Witness ==
    \E p \in Procs :
        /\ pc[p] = "copyfileobj"
        /\ Len(renamed[p]) = 1
        /\ renamed[p][1] \in DOMAIN files
        /\ scene[p].filename # <<"x", ".", "tar.gz">>
        /\ renamed[p][1][Len(renamed[p][1]) - 2] = "x"

\* ------------------------------------------------------------------ C20
\* C20: the retry counter of store is 0 when the loop is first entered, is never
\* above MAX_RETRIES, and within a call changes only by the step that finds a
\* checksum mismatch, which adds one to it; it is 0 again wherever no call is
\* under way.
C20_RetryCounter ==
    /\ [] \A p \in Procs :
           /\ n_retries[p] \in 0..MAX_RETRIES
           /\ pc[p] \notin StorePcs \cup {"processed", "aborted"} => n_retries[p] = 0
           /\ (pc[p] \in StorePcs /\ md5log[p] = <<>>) => n_retries[p] = 0
    /\ [][ \A p \in Procs :
               (n_retries'[p] # n_retries[p] /\ pc'[p] \in StorePcs) =>
                   /\ pc[p] = "md5_compare"
                   /\ md5log'[p][Len(md5log'[p])] = "mismatch"
                   /\ n_retries'[p] = n_retries[p] + 1 ]_vars

\* the counter stands at MAX_RETRIES and one more mismatch has been seen: it has
\* not moved
C20_Witness ==
    \E p \in Procs :
        /\ pc[p] = "while"
        /\ n_retries[p] = MAX_RETRIES
        /\ md5log[p] = <<"mismatch", "mismatch", "mismatch", "mismatch">>

====
